---- MODULE Spec2Model ----
(***************************************************************************)
(* Heater controller firmware, two variants of the same five-state FSM:    *)
(*   LM75  : src/unnamed/part_000           (I2C sensor, warning LED)      *)
(*   TMP36 : src/Project 1/Sourcecode1.cpp  (analog sensor, no LED)        *)
(* One behaviour of the model follows ONE variant (chosen in Init); every  *)
(* step is one whole loop() iteration of that variant.                     *)
(*                                                                         *)
(* Units.  LM75 temperatures are integers in 1/100 degC (the sensor gives  *)
(* multiples of 0.5 degC, the thresholds are 40.0, 2.0, 50.0).  TMP36      *)
(* temperatures are integers in 1/1023 degC: (a*(5.0/1023.0) - 0.5)*100 is *)
(* (500*a - 51150)/1023, so every comparison of the source is an exact     *)
(* integer comparison.  Time is in milliseconds, modulo 2^ClockBits.       *)
(***************************************************************************)
EXTENDS Integers, Sequences, FiniteSets, TLC

VARIABLES variant, intBits, currentState, stateStartTime, heaterPin, ledPin,
          now, iter, last, hold, scen, wall, visited

vars == <<variant, intBits, currentState, stateStartTime, heaterPin, ledPin,
          now, iter, last, hold, scen, wall, visited>>

(* ------------------------------ bounds --------------------------------- *)
\* loop() iterations followed in one behaviour
MaxIter == 13
\* iterations after which the loop that keeps running is followed only
\* through STABILIZING
MaxLiveIter == 4
\* execution time of one iteration on top of delay(), in ms: 0..MaxExec
MaxExec == 0
\* width of the millis() counter in the model (unsigned long in the source)
ClockBits == 14
\* the clock may start this many ms before the counter wraps
WrapLead == 3000

ClockMod == 2 ^ ClockBits

(* ------------------------- program constants --------------------------- *)
IDLE == "IDLE"
HEATING == "HEATING"
STABILIZING == "STABILIZING"
TARGET_REACHED == "TARGET_REACHED"
OVERHEAT == "OVERHEAT"
State == {IDLE, HEATING, STABILIZING, TARGET_REACHED, OVERHEAT}

HIGH == "HIGH"
LOW == "LOW"

\* src/unnamed/part_000, in 1/100 degC
LM75_targetTemp == 4000
LM75_hysteresis == 200
LM75_overheatTemp == 5000
LM75_stabilizingTime == 5000
LM75_delay == 500
\* the value readTemperature() returns when fewer than 2 bytes arrived
LM75_errorValue == -10000

\* src/Project 1/Sourcecode1.cpp, in 1/1023 degC
TMP36_targetTemp == 30 * 1023
TMP36_overheatTemp == 40 * 1023
TMP36_stabilizingTime == 5000
TMP36_delay == 1000

(* ------------------------------ inputs --------------------------------- *)
\* Wire.available() after requestFrom(addr, 2)
Available == 0 .. 2
\* bytes of the LM75 temperature register: 37, 38, 40, 49, 50, 51 degC
\* and 0xFF (-1 degC in the sensor's two's complement format)
MsbValues == {37, 38, 40, 49, 50, 51, 255}
\* bit 7 is the 0.5 degC bit, the other bits are unused by the sensor
LsbValues == {0, 128}
\* analogRead() values: 24.8, 25.3, 27.7, 28.2, 29.7, 30.2, 39.9, 40.4, 47.8 degC
AnalogValues == {153, 154, 159, 160, 163, 164, 184, 185, 200}
\* clock readings at which a behaviour starts: right after boot, and shortly
\* before the counter wraps
InitClocks == {0, ClockMod - WrapLead}

(* --------------------------- pure functions ---------------------------- *)
\* variant of Elapsed with a signed subtraction
Elapsed_signed(t, start) == t - start

\* unsigned long subtraction: millis() - stateStartTime
Elapsed(t, start) == (t - start) % ClockMod

\* ((msb << 8) | lsb) >> 7 assigned to int16_t, for an int of `bits` bits.
\* With a 16-bit int (AVR) the shift result is negative for msb >= 128 and
\* >> sign-extends; with a 32-bit int the result stays in 0 .. 511.
LM75_tempRaw(bits, msb, lsb) ==
  LET u == msb * 256 + lsb
      asInt == IF bits = 16 /\ u >= 32768 THEN u - 65536 ELSE u
      shifted == asInt \div 128
  IN  IF shifted >= 32768 THEN shifted - 65536 ELSE shifted

\* readTemperature() of the LM75 variant; the result is in 1/100 degC
LM75_readTemperature(bits, avail, msb, lsb) ==
  IF avail >= 2 THEN LM75_tempRaw(bits, msb, lsb) * 50 ELSE LM75_errorValue

\* readTemperature() of the TMP36 variant; the result is in 1/1023 degC
TMP36_readTemperature(analogValue) == 500 * analogValue - 51150

(* ------------------------ controller operations ------------------------ *)
\* c is the controller: [state, start, heater, led, calls]; calls counts the
\* changeState calls of the running iteration
changeState(c, newState, t) ==
  [c EXCEPT !.state = newState, !.start = t, !.calls = @ + 1]

controlHeater(c, turnOn) ==
  [c EXCEPT !.heater = IF turnOn THEN HIGH ELSE LOW]

digitalWriteLed(c, v) == [c EXCEPT !.led = v]

digitalWriteHeater(c, v) == [c EXCEPT !.heater = v]

(* LM75 variant: the cases of the switch in loop() *)
\* variant of LM75_caseIDLE with a non-strict comparison
LM75_caseIDLE_nonStrict(c, temp, t) ==
  IF temp <= LM75_targetTemp - LM75_hysteresis
    THEN changeState(c, HEATING, t) ELSE c

LM75_caseIDLE(c, temp, t) ==
  IF temp < LM75_targetTemp - LM75_hysteresis
    THEN changeState(c, HEATING, t) ELSE c

\* variant of LM75_caseHEATING with a strict comparison
LM75_caseHEATING_strict(c, temp, t) ==
  LET c1 == controlHeater(c, TRUE)
  IN  IF temp > LM75_targetTemp THEN changeState(c1, STABILIZING, t) ELSE c1

LM75_caseHEATING(c, temp, t) ==
  LET c1 == controlHeater(c, TRUE)
  IN  IF temp >= LM75_targetTemp THEN changeState(c1, STABILIZING, t) ELSE c1

\* variant of LM75_caseSTABILIZING that re-enters the state on every poll
LM75_caseSTABILIZING_restart(c, temp, t) ==
  LET c1 == controlHeater(c, FALSE)
  IN  IF Elapsed(t, c1.start) >= LM75_stabilizingTime
        THEN changeState(c1, TARGET_REACHED, t)
        ELSE changeState(c1, STABILIZING, t)

\* variant of LM75_caseSTABILIZING with a strict dwell comparison
LM75_caseSTABILIZING_strict(c, temp, t) ==
  LET c1 == controlHeater(c, FALSE)
  IN  IF Elapsed(t, c1.start) > LM75_stabilizingTime
        THEN changeState(c1, TARGET_REACHED, t) ELSE c1

\* variant of LM75_caseSTABILIZING that compares millis() itself
LM75_caseSTABILIZING_noStart(c, temp, t) ==
  LET c1 == controlHeater(c, FALSE)
  IN  IF t >= LM75_stabilizingTime
        THEN changeState(c1, TARGET_REACHED, t) ELSE c1

LM75_caseSTABILIZING(c, temp, t) ==
  LET c1 == controlHeater(c, FALSE)
  IN  IF Elapsed(t, c1.start) >= LM75_stabilizingTime
        THEN changeState(c1, TARGET_REACHED, t) ELSE c1

\* variant of LM75_caseTARGET_REACHED that reheats at or below the target
LM75_caseTARGET_REACHED_reheatAtTarget(c, temp, t) ==
  LET c1 == controlHeater(c, FALSE)
  IN  IF temp <= LM75_targetTemp
        THEN changeState(c1, HEATING, t) ELSE c1

\* variant of LM75_caseTARGET_REACHED with a non-strict comparison
LM75_caseTARGET_REACHED_nonStrict(c, temp, t) ==
  LET c1 == controlHeater(c, FALSE)
  IN  IF temp <= LM75_targetTemp - LM75_hysteresis
        THEN changeState(c1, HEATING, t) ELSE c1

\* variant of LM75_caseTARGET_REACHED that goes back to IDLE
LM75_caseTARGET_REACHED_toIdle(c, temp, t) ==
  LET c1 == controlHeater(c, FALSE)
  IN  IF temp < LM75_targetTemp - LM75_hysteresis
        THEN changeState(c1, IDLE, t) ELSE c1

LM75_caseTARGET_REACHED(c, temp, t) ==
  LET c1 == controlHeater(c, FALSE)
  IN  IF temp < LM75_targetTemp - LM75_hysteresis
        THEN changeState(c1, HEATING, t) ELSE c1

\* variant of LM75_caseOVERHEAT that does not switch the heater off
LM75_caseOVERHEAT_noHeaterOff(c, temp, t) ==
  LET c1 == digitalWriteLed(c, HIGH)
  IN  IF temp < LM75_targetTemp
        THEN changeState(digitalWriteLed(c1, LOW), IDLE, t) ELSE c1

LM75_caseOVERHEAT(c, temp, t) ==
  LET c1 == digitalWriteLed(controlHeater(c, FALSE), HIGH)
  IN  IF temp < LM75_targetTemp
        THEN changeState(digitalWriteLed(c1, LOW), IDLE, t) ELSE c1

LM75_switch(c, temp, t) ==
  CASE c.state = IDLE -> LM75_caseIDLE(c, temp, t)
    [] c.state = HEATING -> LM75_caseHEATING(c, temp, t)
    [] c.state = STABILIZING -> LM75_caseSTABILIZING(c, temp, t)
    [] c.state = TARGET_REACHED -> LM75_caseTARGET_REACHED(c, temp, t)
    [] c.state = OVERHEAT -> LM75_caseOVERHEAT(c, temp, t)

\* variant of LM75_overheatCheck with a strict comparison
LM75_overheatCheck_strict(c, temp, t) ==
  IF temp > LM75_overheatTemp /\ c.state # OVERHEAT
    THEN changeState(c, OVERHEAT, t) ELSE c

\* variant of LM75_overheatCheck without the test of currentState
LM75_overheatCheck_unguarded(c, temp, t) ==
  IF temp >= LM75_overheatTemp THEN changeState(c, OVERHEAT, t) ELSE c

\* the global overheat check after the switch
LM75_overheatCheck(c, temp, t) ==
  IF temp >= LM75_overheatTemp /\ c.state # OVERHEAT
    THEN changeState(c, OVERHEAT, t) ELSE c

\* the body of loop(): the switch, then the global overheat check
LM75_loop(c, temp, t) == LM75_overheatCheck(LM75_switch(c, temp, t), temp, t)

(* TMP36 variant: the cases of the switch in loop() *)
TMP36_overheatIf(c, temperature, t) ==
  IF temperature > TMP36_overheatTemp THEN changeState(c, OVERHEAT, t) ELSE c

TMP36_caseIDLE(c, temperature, t) ==
  LET c1 == digitalWriteHeater(c, LOW)
  IN  IF temperature < TMP36_targetTemp
        THEN changeState(c1, HEATING, t) ELSE c1

TMP36_caseHEATING(c, temperature, t) ==
  LET c1 == digitalWriteHeater(c, HIGH)
      c2 == IF temperature >= TMP36_targetTemp
              THEN changeState(c1, STABILIZING, t) ELSE c1
  IN  TMP36_overheatIf(c2, temperature, t)

\* variant of TMP36_caseSTABILIZING that re-enters the state on every poll
TMP36_caseSTABILIZING_restart(c, temperature, t) ==
  LET c1 == digitalWriteHeater(c, LOW)
      c2 == IF Elapsed(t, c1.start) >= TMP36_stabilizingTime
              THEN changeState(c1, TARGET_REACHED, t)
              ELSE changeState(c1, STABILIZING, t)
  IN  TMP36_overheatIf(c2, temperature, t)

TMP36_caseSTABILIZING(c, temperature, t) ==
  LET c1 == digitalWriteHeater(c, LOW)
      c2 == IF Elapsed(t, c1.start) >= TMP36_stabilizingTime
              THEN changeState(c1, TARGET_REACHED, t) ELSE c1
  IN  TMP36_overheatIf(c2, temperature, t)

TMP36_caseTARGET_REACHED(c, temperature, t) ==
  LET c1 == digitalWriteHeater(c, LOW)
      c2 == IF temperature < TMP36_targetTemp - 2 * 1023
              THEN changeState(c1, HEATING, t) ELSE c1
  IN  TMP36_overheatIf(c2, temperature, t)

TMP36_caseOVERHEAT(c, temperature, t) ==
  LET c1 == digitalWriteHeater(c, LOW)
  IN  IF temperature < TMP36_targetTemp - 5 * 1023
        THEN changeState(c1, IDLE, t) ELSE c1

TMP36_loop(c, temperature, t) ==
  CASE c.state = IDLE -> TMP36_caseIDLE(c, temperature, t)
    [] c.state = HEATING -> TMP36_caseHEATING(c, temperature, t)
    [] c.state = STABILIZING -> TMP36_caseSTABILIZING(c, temperature, t)
    [] c.state = TARGET_REACHED -> TMP36_caseTARGET_REACHED(c, temperature, t)
    [] c.state = OVERHEAT -> TMP36_caseOVERHEAT(c, temperature, t)

(* ---------------------------- state machine ---------------------------- *)
\* the dwell time and the thresholds of the variant that is running
StabilizingTime ==
  IF variant = "LM75" THEN LM75_stabilizingTime ELSE TMP36_stabilizingTime
TargetTemp == IF variant = "LM75" THEN LM75_targetTemp ELSE TMP36_targetTemp
OverheatTemp ==
  IF variant = "LM75" THEN LM75_overheatTemp ELSE TMP36_overheatTemp

\* the controller as the loop body sees it at the start of an iteration
Ctl == [state |-> currentState, start |-> stateStartTime,
        heater |-> heaterPin, led |-> ledPin, calls |-> 0]

NoIteration == [ran |-> FALSE, state |-> IDLE, start |-> 0, heater |-> LOW,
                led |-> LOW, temp |-> 0, failed |-> FALSE, calls |-> 0,
                afterOverheat |-> FALSE]

\* what the iteration that just ended started from and was given;
\* afterOverheat: the iteration before it sampled temp >= overheatTemp
Record(temp, failed, r) ==
  [ran |-> TRUE, state |-> currentState, start |-> stateStartTime,
   heater |-> heaterPin, led |-> ledPin, temp |-> temp, failed |-> failed,
   calls |-> r.calls,
   afterOverheat |-> last.ran /\ last.temp >= OverheatTemp]

\* the run of failed reads in progress, with the heater output it began at
Hold(failed) ==
  IF ~failed THEN [active |-> FALSE, heater |-> LOW]
  ELSE IF hold.active THEN hold
  ELSE [active |-> TRUE, heater |-> heaterPin]

\* one loop() iteration ended in controller r
Apply(r, temp, failed, t) ==
  /\ currentState' = r.state
  /\ stateStartTime' = r.start
  /\ heaterPin' = r.heater
  /\ ledPin' = r.led
  /\ now' = t
  /\ last' = Record(temp, failed, r)
  /\ hold' = Hold(failed)

\* The time that has really passed, without wraparound: now is the clock,
\* start the clock at the latest write of stateStartTime, prevStart the
\* value of start before the iteration that just ended.  d is the time the
\* iteration began after the one before it.
Track(r, d) ==
  wall' = [now |-> wall.now + d,
           start |-> IF r.calls > 0 THEN wall.now + d ELSE wall.start,
           prevStart |-> wall.start]

\* one iteration with sample temp at clock t ended in r.  tracked: the
\* unwrapped time is followed; constant: the inputs do not change, the
\* sample is the one of the iteration before and the period is delay()
Step(r, temp, failed, t, d, tracked, constant) ==
  /\ constant => temp = last.temp
  /\ Apply(r, temp, failed, t)
  /\ IF tracked THEN Track(r, d) ELSE UNCHANGED wall

\* execution time of an iteration on top of delay(), in ms
ExecTimes(constant) == IF constant THEN {0} ELSE 0 .. MaxExec

\* setup(): pins are outputs (LOW), changeState(IDLE) at the current clock
Init ==
  /\ variant \in {"LM75", "TMP36"}
  /\ intBits \in (IF variant = "LM75" THEN {16, 32} ELSE {16})
  /\ currentState = IDLE
  /\ now \in InitClocks
  /\ stateStartTime = now
  /\ heaterPin = LOW
  /\ ledPin = LOW
  /\ iter = 0
  /\ last = NoIteration
  /\ hold = [active |-> FALSE, heater |-> LOW]
  /\ scen = 0
  /\ wall = [now |-> now, start |-> now, prevStart |-> now]
  /\ visited = {}

\* one loop() iteration of the LM75 variant: readTemperature(), the loop
\* body, delay(500)
LM75_Iteration(tracked, constant) ==
  /\ variant = "LM75"
  /\ \E avail \in Available, e \in ExecTimes(constant) :
       LET d == LM75_delay + e
           t == (now + d) % ClockMod
       IN  IF avail < 2
             THEN LET temp == LM75_readTemperature(intBits, avail, 0, 0)
                  IN  Step(LM75_loop(Ctl, temp, t), temp, TRUE, t, d,
                           tracked, constant)
             ELSE \E msb \in MsbValues, lsb \in LsbValues :
                    LET temp == LM75_readTemperature(intBits, avail, msb, lsb)
                    IN  Step(LM75_loop(Ctl, temp, t), temp, FALSE, t, d,
                             tracked, constant)
  /\ UNCHANGED <<variant, intBits, scen>>

\* one loop() iteration of the TMP36 variant: readTemperature(), the loop
\* body, delay(1000)
TMP36_Iteration(tracked, constant) ==
  /\ variant = "TMP36"
  /\ \E analogValue \in AnalogValues, e \in ExecTimes(constant) :
       LET temperature == TMP36_readTemperature(analogValue)
           d == TMP36_delay + e
           t == (now + d) % ClockMod
       IN  Step(TMP36_loop(Ctl, temperature, t), temperature, FALSE, t, d,
                tracked, constant)
  /\ UNCHANGED <<variant, intBits, scen>>

LM75_Loop ==
  /\ iter < MaxIter
  /\ LM75_Iteration(TRUE, FALSE)
  /\ iter' = iter + 1
  /\ UNCHANGED visited

TMP36_Loop ==
  /\ iter < MaxIter
  /\ TMP36_Iteration(TRUE, FALSE)
  /\ iter' = iter + 1
  /\ UNCHANGED visited

Next == LM75_Loop \/ TMP36_Loop

Spec == Init /\ [][Next]_vars

TypeOK ==
  /\ variant \in {"LM75", "TMP36"}
  /\ intBits \in {16, 32}
  /\ currentState \in State
  /\ stateStartTime \in 0 .. ClockMod - 1
  /\ now \in 0 .. ClockMod - 1
  /\ heaterPin \in {HIGH, LOW}
  /\ ledPin \in {HIGH, LOW}
  /\ iter \in 0 .. MaxIter
  /\ scen \in Nat
  /\ last.state \in State /\ last.calls \in 0 .. 2
  /\ hold.active \in BOOLEAN

(* --------------------- the loop that keeps running --------------------- *)
\* loop() is called again whenever it returns.  The bound on the iterations
\* of a behaviour stops the model only outside STABILIZING, so that it never
\* cuts a dwell short; iter stays at MaxLiveIter once it got there.  The
\* unwrapped time is not followed here.
CountIter == iter' = IF iter < MaxLiveIter THEN iter + 1 ELSE iter

LM75_LiveLoop ==
  /\ iter < MaxLiveIter \/ currentState = STABILIZING
  /\ LM75_Iteration(FALSE, FALSE)
  /\ CountIter
  /\ UNCHANGED visited

TMP36_LiveLoop ==
  /\ iter < MaxLiveIter \/ currentState = STABILIZING
  /\ TMP36_Iteration(FALSE, FALSE)
  /\ CountIter
  /\ UNCHANGED visited

LiveNext == LM75_LiveLoop \/ TMP36_LiveLoop

\* fairness: the Arduino core calls loop() forever and millis() advances
LiveSpec == Init /\ [][LiveNext]_vars /\ WF_vars(LiveNext)

(* ------------------- the loop under a constant sample ------------------ *)
\* The loop keeps running from any of the five states, just entered, and the
\* sensor gives the same sample in every iteration, delay() apart.  One
\* sample per region of the thresholds: LM75 37.5, 38.0, 40.0, 50.0 and the
\* failed read (no msb >= 128, so the width of int plays no part); TMP36
\* 24.8, 25.3, 28.2, 30.2, 40.4.  visited holds the states that were current
\* and have been left.
ConstBytes == {<<37, 128>>, <<38, 0>>, <<40, 0>>, <<50, 0>>}
ConstAnalog == {153, 154, 160, 164, 185}
ConstSamples ==
  IF variant = "LM75"
    THEN {LM75_readTemperature(intBits, 2, b[1], b[2]) : b \in ConstBytes}
           \cup {LM75_readTemperature(intBits, 0, 0, 0)}
    ELSE {TMP36_readTemperature(a) : a \in ConstAnalog}

ConstInit ==
  /\ variant \in {"LM75", "TMP36"}
  /\ intBits = 16
  /\ currentState \in State
  /\ now = 0
  /\ stateStartTime = now
  /\ heaterPin = (IF currentState = STABILIZING THEN HIGH ELSE LOW)
  /\ ledPin = LOW
  /\ iter = 0
  /\ \E sample \in ConstSamples : last = [NoIteration EXCEPT !.temp = sample]
  /\ hold = [active |-> FALSE, heater |-> LOW]
  /\ scen = 0
  /\ wall = [now |-> now, start |-> now, prevStart |-> now]
  /\ visited = {}

Visit ==
  visited' = IF currentState' # currentState
               THEN visited \cup {currentState} ELSE visited

LM75_ConstLoop ==
  /\ LM75_Iteration(FALSE, TRUE)
  /\ CountIter
  /\ Visit

TMP36_ConstLoop ==
  /\ TMP36_Iteration(FALSE, TRUE)
  /\ CountIter
  /\ Visit

ConstNext == LM75_ConstLoop \/ TMP36_ConstLoop

\* fairness: the Arduino core calls loop() forever and millis() advances
ConstSpec == ConstInit /\ [][ConstNext]_vars /\ WF_vars(ConstNext)

(* ------------------- the concrete scenario of the LM75 loop ------------ *)
\* The loop body applied to a prescribed sequence of (sample, clock) pairs:
\* 35.0, 41.0 (entering STABILIZING, "t = 0"), 41.0 at t = 4999, a free
\* sample at t = 5001, then 37.5, 37.9, 37.99, 37.0.  scen is the number of
\* samples fed so far.
ScenarioTemps == <<{3500}, {4100}, {4100}, {3800, 4100, 4950},
                   {3750}, {3790}, {3799}, {3700}>>
ScenarioLen == Len(ScenarioTemps)
\* ms between two samples where the scenario does not fix it
ScenarioGaps == {500, 501, 1000}
ScenarioClocks == {0, 250, ClockMod - WrapLead}

ScenarioInit ==
  /\ variant = "LM75"
  /\ intBits = 16
  /\ currentState = IDLE
  /\ now \in ScenarioClocks
  /\ stateStartTime = now
  /\ heaterPin = LOW
  /\ ledPin = LOW
  /\ iter = 0
  /\ last = NoIteration
  /\ hold = [active |-> FALSE, heater |-> LOW]
  /\ scen = 0
  /\ wall = [now |-> now, start |-> now, prevStart |-> now]
  /\ visited = {}

ScenarioStep ==
  /\ scen < ScenarioLen
  /\ \E temp \in ScenarioTemps[scen + 1],
        gap \in (CASE scen = 2 -> {4999} [] scen = 3 -> {2}
                   [] OTHER -> ScenarioGaps) :
       LET t == (now + gap) % ClockMod
       IN  Step(LM75_loop(Ctl, temp, t), temp, FALSE, t, gap, TRUE, FALSE)
  /\ scen' = scen + 1
  /\ iter' = iter + 1
  /\ UNCHANGED <<variant, intBits, visited>>

ScenarioNext == ScenarioStep

ScenarioSpec == ScenarioInit /\ [][ScenarioNext]_vars

(* ------------------------------ properties ----------------------------- *)
LM75_ran == last.ran /\ variant = "LM75"
TMP36_ran == last.ran /\ variant = "TMP36"
\* millis() - stateStartTime as the iteration that just ended computed it
LastElapsed == Elapsed(now, last.start)

\* C1: LM75 variant: an iteration that starts in a state other than OVERHEAT
\* and samples temp >= overheatTemp ends in OVERHEAT, whatever the per-state
\* predicate of the starting state says.
C1_OverheatOverrides ==
  (LM75_ran /\ last.state # OVERHEAT /\ last.temp >= LM75_overheatTemp)
    => currentState = OVERHEAT

\* C1 witness: STABILIZING with the dwell time elapsed and an overheat sample
\* of exactly 50.0: TARGET_REACHED is entered and replaced by OVERHEAT.
C1_Witness ==
  /\ LM75_ran /\ last.state = STABILIZING
  /\ LastElapsed >= LM75_stabilizingTime
  /\ last.temp = LM75_overheatTemp
  /\ last.calls = 2 /\ currentState = OVERHEAT

\* C2: LM75 variant: whenever an iteration ends in OVERHEAT (the entering
\* iteration included), the heater output is off and the warning LED is on.
C2_OverheatOutputs ==
  (LM75_ran /\ currentState = OVERHEAT) => (heaterPin = LOW /\ ledPin = HIGH)

\* C3: an iteration whose sensor read failed changes neither currentState nor
\* stateStartTime nor the heater and warning outputs.
C3_FailedReadFreezes ==
  (last.ran /\ last.failed)
    => /\ currentState = last.state
       /\ stateStartTime = last.start
       /\ heaterPin = last.heater
       /\ ledPin = last.led

\* C4: while every read since some iteration has failed, the heater output
\* still has the value it had when the failures began.
C4_HeaterHeldUnderFailure == hold.active => heaterPin = hold.heater

\* C5: after every iteration, in both variants, the heater pin is HIGH if and
\* only if currentState is HEATING.
C5_HeaterIffHeating == last.ran => (heaterPin = HIGH <=> currentState = HEATING)

\* C6: TMP36 variant: an iteration that starts in a state other than OVERHEAT
\* (IDLE included) and samples temperature >= overheatTemp ends in OVERHEAT.
C6_OverheatFromEveryState ==
  (TMP36_ran /\ last.state # OVERHEAT /\ last.temp >= TMP36_overheatTemp)
    => currentState = OVERHEAT

\* C7 as claimed: from STABILIZING an iteration ends in TARGET_REACHED if and
\* only if millis() - stateStartTime >= stabilizingTime, and an earlier
\* iteration ends in STABILIZING for every temperature at or above the target.
C7_Original ==
  (last.ran /\ last.state = STABILIZING)
    => /\ currentState = TARGET_REACHED <=> LastElapsed >= StabilizingTime
       /\ (LastElapsed < StabilizingTime /\ last.temp >= TargetTemp)
            => currentState = STABILIZING

\* C7 (amended): from STABILIZING an iteration whose sample is below
\* overheatTemp ends in TARGET_REACHED if and only if
\* millis() - stateStartTime >= stabilizingTime, and ends in STABILIZING
\* otherwise, for every such temperature.
C7_DwellGate ==
  (last.ran /\ last.state = STABILIZING /\ last.temp < OverheatTemp)
    => /\ currentState = TARGET_REACHED <=> LastElapsed >= StabilizingTime
       /\ LastElapsed < StabilizingTime => currentState = STABILIZING

\* C7 witness: promotion at an elapsed time of exactly stabilizingTime with a
\* sample at or above the target.
C7_Witness ==
  /\ last.ran /\ last.state = STABILIZING
  /\ last.temp >= TargetTemp /\ last.temp < OverheatTemp
  /\ LastElapsed = StabilizingTime
  /\ currentState = TARGET_REACHED

ScenarioClaimed ==
  <<HEATING, STABILIZING, STABILIZING, TARGET_REACHED,
    TARGET_REACHED, TARGET_REACHED, TARGET_REACHED, HEATING>>
ScenarioActual ==
  <<HEATING, STABILIZING, STABILIZING, TARGET_REACHED,
    HEATING, HEATING, HEATING, HEATING>>

\* C8 as claimed: the scenario yields HEATING, STABILIZING, STABILIZING,
\* TARGET_REACHED, TARGET_REACHED, TARGET_REACHED, TARGET_REACHED, HEATING.
C8_Original == scen >= 1 => currentState = ScenarioClaimed[scen]

\* C8 (amended): the scenario yields HEATING, STABILIZING, STABILIZING,
\* TARGET_REACHED, HEATING, HEATING, HEATING, HEATING: the sample 37.5 is
\* below the hysteresis floor 38.0 and leaves TARGET_REACHED.
C8_Scenario == scen >= 1 => currentState = ScenarioActual[scen]

\* C8 witness: the whole scenario has run.
C8_Witness == scen = ScenarioLen /\ last.temp = 3700 /\ currentState = HEATING

\* C9: LM75 variant: from IDLE, temp < targetTemp - hysteresis ends in
\* HEATING and targetTemp - hysteresis <= temp < overheatTemp ends in IDLE.
C9_IdleEdge ==
  (LM75_ran /\ last.state = IDLE)
    => /\ last.temp < LM75_targetTemp - LM75_hysteresis
            => currentState = HEATING
       /\ (/\ last.temp >= LM75_targetTemp - LM75_hysteresis
           /\ last.temp < LM75_overheatTemp) => currentState = IDLE

\* C9 witness: a sample of exactly targetTemp - hysteresis leaves IDLE alone.
C9_Witness ==
  /\ LM75_ran /\ last.state = IDLE
  /\ last.temp = LM75_targetTemp - LM75_hysteresis
  /\ currentState = IDLE

\* C10: TMP36 variant: HEATING is entered only by an iteration whose sample
\* is strictly below targetTemp - 2, and a sample in [targetTemp - 2,
\* targetTemp) leaves IDLE unchanged.
C10_DeadbandOnEveryEntry ==
  /\ (TMP36_ran /\ last.state # HEATING /\ currentState = HEATING)
       => last.temp < TMP36_targetTemp - 2 * 1023
  /\ (/\ TMP36_ran /\ last.state = IDLE
      /\ last.temp >= TMP36_targetTemp - 2 * 1023
      /\ last.temp < TMP36_targetTemp) => currentState = IDLE

\* the hysteresis floor of the variant that is running
HysteresisFloor ==
  IF variant = "LM75" THEN LM75_targetTemp - LM75_hysteresis
  ELSE TMP36_targetTemp - 2 * 1023

\* C11: from HEATING, an iteration with targetTemp <= temp < overheatTemp
\* ends in STABILIZING with stateStartTime set to the clock value of that
\* iteration, and an iteration with temp < targetTemp leaves HEATING and
\* stateStartTime unchanged.
C11_HeatingEdge ==
  (last.ran /\ last.state = HEATING)
    => /\ (last.temp >= TargetTemp /\ last.temp < OverheatTemp)
            => (currentState = STABILIZING /\ stateStartTime = now)
       /\ last.temp < TargetTemp
            => (currentState = HEATING /\ stateStartTime = last.start)

\* C11 witness: a sample of exactly targetTemp moves HEATING to STABILIZING
\* and stamps the clock of the iteration, which differs from the old stamp.
C11_Witness ==
  /\ last.ran /\ last.state = HEATING /\ last.temp = LM75_targetTemp
  /\ variant = "LM75"
  /\ currentState = STABILIZING /\ stateStartTime = now
  /\ last.start # now

\* C12: from TARGET_REACHED, an iteration with a sample below overheatTemp
\* ends in HEATING if and only if temp < targetTemp - hysteresis, and ends
\* in TARGET_REACHED otherwise.
C12_TargetReachedEdge ==
  (last.ran /\ last.state = TARGET_REACHED /\ last.temp < OverheatTemp)
    => /\ currentState = HEATING <=> last.temp < HysteresisFloor
       /\ last.temp >= HysteresisFloor => currentState = TARGET_REACHED

\* C12 witness: a sample of exactly the hysteresis floor (38.0) leaves
\* TARGET_REACHED alone.
C12_Witness ==
  /\ LM75_ran /\ last.state = TARGET_REACHED
  /\ last.temp = LM75_targetTemp - LM75_hysteresis
  /\ currentState = TARGET_REACHED

\* C14: in every iteration stateStartTime is written (changeState is called)
\* if and only if currentState ends the iteration with a value other than
\* the one it started with; an unwritten stateStartTime keeps its value and
\* a written one holds the clock of the iteration.
C14_StampIffChange ==
  last.ran
    => /\ last.calls > 0 <=> currentState # last.state
       /\ last.calls = 0 => stateStartTime = last.start
       /\ last.calls > 0 => stateStartTime = now

\* C14 witness: an iteration that stays in OVERHEAT on an overheat sample
\* writes nothing.
C14_Witness ==
  /\ last.ran /\ last.state = OVERHEAT /\ last.temp >= OverheatTemp
  /\ currentState = OVERHEAT /\ last.calls = 0
  /\ stateStartTime = last.start /\ stateStartTime # now

\* the state changes one iteration may make
AllowedEdges ==
  {<<IDLE, HEATING>>, <<HEATING, STABILIZING>>,
   <<STABILIZING, TARGET_REACHED>>, <<TARGET_REACHED, HEATING>>,
   <<OVERHEAT, IDLE>>}
    \cup {<<x, OVERHEAT>> : x \in State \ {OVERHEAT}}

\* C17: in both variants the state at the end of an iteration is the state
\* at its start or is connected to it by one of IDLE->HEATING,
\* HEATING->STABILIZING, STABILIZING->TARGET_REACHED, TARGET_REACHED->HEATING,
\* OVERHEAT->IDLE, X->OVERHEAT.
C17_OnlyAllowedEdges ==
  (last.ran /\ currentState # last.state)
    => <<last.state, currentState>> \in AllowedEdges

\* C17 witness: TARGET_REACHED is left for HEATING.
C17_Witness ==
  last.ran /\ last.state = TARGET_REACHED /\ currentState = HEATING

\* C18: each iteration calls changeState at most once, in both variants.
C18_AtMostOneChange == last.ran => last.calls <= 1

\* C13: LM75 variant: a sample of 51.0 leaves the controller in OVERHEAT with
\* the heater off and the warning on; OVERHEAT is left only to IDLE, exactly
\* in an iteration with temp < targetTemp, samples in [targetTemp,
\* overheatTemp) keep it in OVERHEAT, and the warning is off in IDLE.
C13_OverheatAndRecovery ==
  /\ (LM75_ran /\ last.temp = 5100)
       => (currentState = OVERHEAT /\ heaterPin = LOW /\ ledPin = HIGH)
  /\ (LM75_ran /\ last.state = OVERHEAT)
       => /\ currentState \in {OVERHEAT, IDLE}
          /\ currentState = IDLE <=> last.temp < LM75_targetTemp
          /\ (last.temp >= LM75_targetTemp /\ last.temp < LM75_overheatTemp)
               => currentState = OVERHEAT
  /\ (LM75_ran /\ currentState = IDLE) => ledPin = LOW

\* C19: LM75 variant: when an iteration has sampled temp >= overheatTemp,
\* the heater pin is LOW at the end of the next iteration, whatever that
\* iteration samples.
C19_HeaterOffOneCycleLater ==
  (LM75_ran /\ last.afterOverheat) => heaterPin = LOW

\* C19 witness: the heater was still on at the start of the iteration after
\* the overheat sample, and that iteration switched it off.
C19_Witness ==
  /\ LM75_ran /\ last.afterOverheat
  /\ last.state = OVERHEAT /\ last.heater = HIGH
  /\ heaterPin = LOW

\* the time that really passed between the write of stateStartTime that the
\* last iteration found and that iteration
TrueElapsed == wall.now - wall.prevStart
\* the last iteration, started in STABILIZING, took the promotion to
\* TARGET_REACHED (and may have replaced it by OVERHEAT)
Promoted == currentState = TARGET_REACHED \/ last.calls = 2

\* C16: with millis() an unsigned ClockBits-bit counter, in an iteration
\* that starts in STABILIZING less than 2^ClockBits ms after it was entered,
\* millis() - stateStartTime equals the time that really elapsed, wrapped
\* counter or not, and the promotion fires exactly when that time has
\* reached stabilizingTime.
C16_WrapTolerant ==
  (last.ran /\ last.state = STABILIZING /\ TrueElapsed < ClockMod)
    => /\ LastElapsed = TrueElapsed
       /\ Promoted <=> TrueElapsed >= StabilizingTime

\* C16 witness: the counter wrapped past zero while in STABILIZING (the
\* clock reads less than the stamp) and the promotion fired at exactly
\* stabilizingTime of real time.
C16_Witness ==
  /\ last.ran /\ last.state = STABILIZING
  /\ now < last.start
  /\ TrueElapsed = StabilizingTime
  /\ currentState = TARGET_REACHED

\* C20: while loop() keeps being called, a controller in STABILIZING
\* eventually is in TARGET_REACHED or OVERHEAT, for every sequence of samples,
\* in both variants.
C20_StabilizingEnds ==
  (currentState = STABILIZING) ~> (currentState \in {TARGET_REACHED, OVERHEAT})

\* C20 witness: STABILIZING was left for TARGET_REACHED after the counter
\* had wrapped during the dwell.
C20_Witness ==
  /\ last.ran /\ last.state = STABILIZING /\ currentState = TARGET_REACHED
  /\ now < last.start

\* C15: under a constant sample, from every starting state, no state is
\* entered again after it has been left, and from some iteration on the
\* state never changes.
C15_NoOscillation ==
  /\ [](currentState \notin visited)
  /\ <>[][currentState' = currentState]_vars

\* C15 witness: under a constant sample HEATING and then STABILIZING were
\* left, TARGET_REACHED is current and the clock has wrapped since.
C15_Witness ==
  /\ visited = {HEATING, STABILIZING}
  /\ currentState = TARGET_REACHED
  /\ now < stateStartTime
====
